---- MODULE Spec2Model ----
(***************************************************************************)
(* Model of build/landmines.py (the landmine guard that clobbers the build *)
(* output directory when the landmines change) and of                      *)
(* tools/findit/chromium_deps.py (GetChromiumComponents).                  *)
(***************************************************************************)
EXTENDS Integers, Sequences, FiniteSets, TLC

\* ------------------------------------------------------------------------
\* Bounds of the model
\* ------------------------------------------------------------------------
\* Number of invocations of the script in one behaviour.
MaxRuns == 3

\* ------------------------------------------------------------------------
\* Text: a string is a sequence of characters
\* ------------------------------------------------------------------------
NL == "\n"
SP == " "

\* Position of the first newline of s, 0 when there is none.
FirstNL(s) ==
  IF \E i \in 1..Len(s) : s[i] = NL
    THEN CHOOSE i \in 1..Len(s) : s[i] = NL /\ \A j \in 1..(i-1) : s[j] # NL
    ELSE 0

\* str.splitlines(): the lines without their terminators, no final empty line.
RECURSIVE splitlines(_)
splitlines(s) ==
  IF s = <<>> THEN <<>>
  ELSE LET i == FirstNL(s) IN
       IF i = 0 THEN <<s>>
       ELSE <<SubSeq(s, 1, i-1)>> \o splitlines(SubSeq(s, i+1, Len(s)))

\* str.strip(): drop leading and trailing whitespace.
RECURSIVE lstrip(_)
lstrip(s) ==
  IF s # <<>> /\ Head(s) \in {SP, NL} THEN lstrip(Tail(s)) ELSE s

RECURSIVE rstrip(_)
rstrip(s) ==
  IF s # <<>> /\ s[Len(s)] \in {SP, NL} THEN rstrip(SubSeq(s, 1, Len(s)-1)) ELSE s

strip(s) == rstrip(lstrip(s))

\* [('%s\n' % l.strip()) for l in output.splitlines()]
LandminesOf(output) ==
  LET ls == splitlines(output) IN [i \in 1..Len(ls) |-> strip(ls[i]) \o <<NL>>]

\* Mutant of writelines: a newline is added after every line, as print would.
RECURSIVE writelines_with_newlines(_)
writelines_with_newlines(lines) ==
  IF lines = <<>> THEN <<>>
  ELSE Head(lines) \o <<NL>> \o writelines_with_newlines(Tail(lines))

\* file.writelines(lines): the lines are written one after another, nothing added.
RECURSIVE writelines(_)
writelines(lines) ==
  IF lines = <<>> THEN <<>> ELSE Head(lines) \o writelines(Tail(lines))

\* Mutant of readlines: the lines come back without their terminators.
readlines_stripped(content) == splitlines(content)

\* file.readlines(): the lines of the file, each with its terminator.
RECURSIVE readlines(_)
readlines(content) ==
  IF content = <<>> THEN <<>>
  ELSE LET i == FirstNL(content) IN
       IF i = 0 THEN <<content>>
       ELSE <<SubSeq(content, 1, i)>> \o readlines(SubSeq(content, i+1, Len(content)))


\* ------------------------------------------------------------------------
\* Paths: a path is the sequence of its components below SRC_DIR
\* ------------------------------------------------------------------------
SRC_DIR == <<>>

\* os.path.join for relative components.
join(a, b) == a \o b

\* os.path.normpath: "x/.." collapses.
RECURSIVE normpath_from(_, _)
normpath_from(done, rest) ==
  IF rest = <<>> THEN done
  ELSE IF Head(rest) = ".." /\ done # <<>> /\ done[Len(done)] # ".."
         THEN normpath_from(SubSeq(done, 1, Len(done)-1), Tail(rest))
         ELSE normpath_from(Append(done, Head(rest)), Tail(rest))

normpath(p) == normpath_from(<<>>, p)

dirname(p) == SubSeq(p, 1, Len(p)-1)

IsPrefix(p, q) == Len(p) <= Len(q) /\ SubSeq(q, 1, Len(p)) = p

\* ------------------------------------------------------------------------
\* The environment of one invocation
\* ------------------------------------------------------------------------
\* Values of landmine_utils.builder(); "scons" stands for any other generator.
SupportedBuilders == {"xcode", "make", "ninja", "ninja-ios", "msvs", "vs", "ib"}
SkipBuilders == {"dump_dependency_json", "eclipse"}
Builders == SupportedBuilders \cup SkipBuilders \cup {"scons"}

\* Values of the CHROMIUM_OUT_DIR environment variable.
Unset == <<"<unset>">>
OutDirOverrides == {Unset, <<"sub", "out">>}

environ_get(value, default) == IF value = Unset THEN default ELSE value

\* What the landmine scripts of one invocation write to stdout, in the order
\* they are run: get_landmines.py alone, or followed by $EXTRA_LANDMINES_SCRIPT.
ScriptRuns ==
  { << <<>> >>,
    << <<SP, "a", NL, "b">> >>,
    << <<"b", NL, "a", NL>> >>,
    << <<"a", NL>>, <<"b">> >> }

\* ------------------------------------------------------------------------
\* get_build_dir, and the marker path of clobber_if_necessary
\* ------------------------------------------------------------------------
\* Mutant of get_build_dir: an unexpected generator falls back to out/.
get_build_dir_default_out(build_tool, chromium_out_dir) ==
  IF build_tool = "xcode"
    THEN [raised |-> FALSE, ret |-> join(SRC_DIR, <<"xcodebuild">>)]
  ELSE IF build_tool \in {"msvs", "vs", "ib"}
    THEN [raised |-> FALSE, ret |-> join(SRC_DIR, <<"build">>)]
  ELSE [raised |-> FALSE,
        ret |-> join(SRC_DIR, environ_get(chromium_out_dir, <<"out">>))]

get_build_dir(build_tool, chromium_out_dir) ==
  IF build_tool = "xcode"
    THEN [raised |-> FALSE, ret |-> join(SRC_DIR, <<"xcodebuild">>)]
  ELSE IF build_tool \in {"make", "ninja", "ninja-ios"}
    THEN [raised |-> FALSE,
          ret |-> join(SRC_DIR, environ_get(chromium_out_dir, <<"out">>))]
  ELSE IF build_tool \in {"msvs", "vs", "ib"}
    THEN [raised |-> FALSE, ret |-> join(SRC_DIR, <<"build">>)]
  ELSE [raised |-> TRUE, ret |-> SRC_DIR]

\* Mutant of LandminesPath: the marker is kept inside the output directory.
LandminesPath_inside(dir) == normpath(join(dir, <<".landmines">>))

\* os.path.normpath(os.path.join(out_dir, '..', '.landmines'))
LandminesPath(dir) == normpath(join(dir, <<"..", ".landmines">>))

\* The loop of main: the landmines of all scripts, concatenated in order.
RECURSIVE landmines(_)
landmines(outputs) ==
  IF outputs = <<>> THEN <<>>
  ELSE LandminesOf(Head(outputs)) \o landmines(Tail(outputs))

\* Mutant of landmines_changed: the landmines are compared as sets.
landmines_changed_as_sets(old, new) ==
  {old[i] : i \in 1..Len(old)} # {new[i] : i \in 1..Len(new)}

\* Mutant of landmines_changed: an empty list of landmines always counts as a change.
landmines_changed_or_empty(old, new) == old # new \/ new = <<>>

\* old_landmines != new_landmines
landmines_changed(old, new) == old # new


\* ------------------------------------------------------------------------
\* The file system below SRC_DIR
\* ------------------------------------------------------------------------
AllDirs == {<<"xcodebuild">>, <<"out">>, <<"build">>, <<"sub">>, <<"sub", "out">>}
MarkerPaths == {<<".landmines">>, <<"sub", ".landmines">>}

\* A directory: whether it exists and, abstracting its files, the landmines
\* under which the build products in it were built (none: it is empty).
AbsentDir == [exists |-> FALSE, content |-> <<>>]
EmptyDir == [exists |-> TRUE, content |-> <<>>]
AbsentFile == [exists |-> FALSE, content |-> <<>>]

DirExists(ds, p) == p = SRC_DIR \/ (p \in AllDirs /\ ds[p].exists)

\* os.makedirs(path) that succeeds: the leaf and every missing ancestor are created.
makedirs(ds, path) ==
  [d \in AllDirs |-> IF IsPrefix(d, path) /\ ~ds[d].exists THEN EmptyDir ELSE ds[d]]

\* os.makedirs(path) that fails below the k-th component: the ancestors above are created.
makedirs_failed(ds, path, k) ==
  [d \in AllDirs |->
     IF IsPrefix(d, path) /\ Len(d) <= k /\ ~ds[d].exists THEN EmptyDir ELSE ds[d]]

\* shutil.rmtree(path) that succeeds: path and everything below it is gone.
rmtree(ds, path) ==
  [d \in AllDirs |-> IF IsPrefix(path, d) THEN AbsentDir ELSE ds[d]]

rmtree_files(ms, path) ==
  [m \in MarkerPaths |-> IF IsPrefix(path, m) THEN AbsentFile ELSE ms[m]]

\* shutil.rmtree(path) that fails: the directory is still there, with or without its files.
rmtree_failed(ds, path) ==
  IF DirExists(ds, path)
    THEN {ds, [ds EXCEPT ![path] = EmptyDir]}
    ELSE {ds}

\* ------------------------------------------------------------------------
\* State
\* ------------------------------------------------------------------------
VARIABLES
  dirs,             \* the directories below SRC_DIR
  markers,          \* the .landmines files
  pc,               \* position of the running invocation, "idle" between invocations
  builder,          \* landmine_utils.builder()
  chromium_out_dir, \* os.environ CHROMIUM_OUT_DIR
  new_landmines,    \* argument of clobber_if_necessary
  out_dir,          \* clobber_if_necessary: out_dir
  landmines_path,   \* clobber_if_necessary: landmines_path
  old_landmines,    \* clobber_if_necessary: old_landmines
  errno,            \* e.errno of the OSError of os.makedirs, "none" without one
  decided,          \* "clobber" once line 67 found a change, "keep" once it did not
  clobbered,        \* shutil.rmtree(out_dir) returned in this invocation
  result,           \* exit code "0", or the exception that ended the invocation
  runs,             \* number of invocations so far
  planted,          \* history: per marker, the landmines last saved there
  start,            \* history: the file system (and planted) when the invocation started
  last              \* history: the previous invocation

\* ------------------------------------------------------------------------
\* tools/findit/chromium_deps.py
\* ------------------------------------------------------------------------
\* The entries of deps_config.json that GetChromiumComponents reads; a string is
\* a sequence of tokens, a directory the sequence of its components.
CONFIG ==
  [git_base_url |-> <<"git_base_url">>,
   git_deps_path |-> <<"git_deps_path">>,
   svn_base_url |-> <<"svn_base_url">>,
   svn_deps_path |-> <<"svn_deps_path">>,
   svn_src_chromium_url |-> <<"svn_src_chromium_url">>,
   host_directories |-> << <<"src", "third_party">>, <<"src">> >>]

GitHashes == { <<"5d5e6d6bf3f6a2dc2a0c4a31bd9d4d0ae9c6f1b2">> }
SvnRevisions == { <<"291560">> }
Revisions == GitHashes \cup SvnRevisions

\* utils.IsGitHash(revision)
IsGitHash(revision) == revision \in GitHashes

\* str.lower() on the names that occur.
lower(name) ==
  CASE name = "WebKit" -> "webkit"
    [] name = "Linux" -> "linux"
    [] OTHER -> name

\* A component path: its components, and whether it ends with '/'.
WebKitPath == [segs |-> <<"src", "third_party", "WebKit">>, slash |-> FALSE]
GypPath == [segs |-> <<"src", "tools", "gyp">>, slash |-> TRUE]
SrcPath == [segs |-> <<"src">>, slash |-> FALSE]
DepPaths == {WebKitPath, GypPath, SrcPath}

\* 'repository@revision' entries of a DEPS file.
DepValues ==
  { <<"/", "trunk/deps/third_party/icu", "@">> \o r : r \in SvnRevisions } \cup
  { <<"https://chromium.googlesource.com/external/gyp", "@">> \o r : r \in GitHashes }

EmptyDict == [k \in {} |-> <<>>]
Dicts(keys, values) == UNION {[ks -> values] : ks \in SUBSET keys}

\* The scopes a DEPS file leaves behind when executed: it may or may not set deps_os.
DepsOsSamples ==
  { EmptyDict,
    [o \in {"unix"} |-> [k \in {GypPath} |->
        <<"https://chromium.googlesource.com/external/gyp", "@">> \o
          (CHOOSE r \in GitHashes : TRUE)]],
    [o \in {"win"} |-> [k \in {WebKitPath} |->
        <<"/", "trunk/deps/third_party/icu", "@">> \o (CHOOSE r \in SvnRevisions : TRUE)]] }

DepsFiles ==
  { [v \in {"deps"} |-> d] : d \in Dicts(DepPaths, DepValues) } \cup
  { [v \in {"deps", "deps_os"} |-> IF v = "deps" THEN d ELSE o] :
      d \in Dicts(DepPaths, DepValues), o \in DepsOsSamples }

Platforms == {"unix", "linux", "Linux", "win"}

\* base64, as a wrapper that b64decode takes off.
b64encode(content) == <<"base64", content>>
b64decode(content) == content[2]

\* deps_file_downloader(url): googlesource serves the file base64-encoded.
deps_file_downloader(url, deps_file) ==
  IF url[1] = CONFIG.git_base_url THEN b64encode(deps_file) ELSE deps_file

\* _ParseDEPS(content)
ParseDEPS(content) ==
  << IF "deps" \in DOMAIN content THEN content["deps"] ELSE EmptyDict,
     IF "deps_os" \in DOMAIN content THEN content["deps_os"] ELSE EmptyDict >>

\* dict.update
update(a, b) ==
  [k \in (DOMAIN a) \cup (DOMAIN b) |-> IF k \in DOMAIN b THEN b[k] ELSE a[k]]

\* dict.get(key, {})
get(d, key) == IF key \in DOMAIN d THEN d[key] ELSE EmptyDict

\* path.startswith(host_dir), host_dir ending with '/'
startswith(path, host_dir) ==
  /\ IsPrefix(host_dir, path.segs)
  /\ Len(path.segs) > Len(host_dir) \/ path.slash

\* _GetComponentName(path, host_dirs)
RECURSIVE GetComponentName(_, _)
GetComponentName(path, host_dirs) ==
  IF host_dirs = <<>>
    THEN <<"_">> \o path.segs
    ELSE LET host_dir == Head(host_dirs) IN
         IF startswith(path, host_dir)
           THEN LET name == IF Len(path.segs) > Len(host_dir)
                               THEN lower(path.segs[Len(host_dir) + 1])
                               ELSE ""
                IN <<IF name = "webkit" THEN "blink" ELSE name>>
           ELSE GetComponentName(path, Tail(host_dirs))

\* repository, revision = value.split('@')
split_at(value) ==
  LET i == CHOOSE i \in 1..Len(value) : value[i] = "@" IN
  <<SubSeq(value, 1, i - 1), SubSeq(value, i + 1, Len(value))>>

ChromiumKey == [segs |-> <<"src">>, slash |-> TRUE]

VARIABLES
  cc_pc,             \* position in GetChromiumComponents: "idle", "for", "return"
  chromium_revision, \* argument chromium_revision
  os_platform,       \* argument os_platform
  is_git_hash,       \* local is_git_hash
  all_deps,          \* local all_deps
  todo,              \* the component paths the for loop has yet to visit
  components         \* local components

dvars == <<cc_pc, chromium_revision, os_platform, is_git_hash, all_deps, todo,
           components>>


vars == <<dirs, markers, pc, builder, chromium_out_dir, new_landmines, out_dir,
          landmines_path, old_landmines, errno, decided, clobbered, result, runs,
          start, planted, last, cc_pc, chromium_revision, os_platform,
          is_git_hash, all_deps, todo, components>>

lvars == <<dirs, markers, pc, builder, chromium_out_dir, new_landmines, out_dir,
           landmines_path, old_landmines, errno, decided, clobbered, result, runs,
           start, planted, last>>

locals == <<builder, chromium_out_dir, new_landmines, out_dir, landmines_path,
            old_landmines, errno, decided, clobbered, result>>

NoLast == [result |-> "none", decided |-> "none", out_dir |-> SRC_DIR,
           landmines_path |-> SRC_DIR, landmines |-> <<>>]

Init ==
  /\ dirs = [d \in AllDirs |-> AbsentDir]
  /\ markers = [m \in MarkerPaths |-> AbsentFile]
  /\ pc = "idle"
  /\ builder = "none"
  /\ chromium_out_dir = Unset
  /\ new_landmines = <<>>
  /\ out_dir = SRC_DIR
  /\ landmines_path = SRC_DIR
  /\ old_landmines = <<>>
  /\ errno = "none"
  /\ decided = "none"
  /\ clobbered = FALSE
  /\ result = "none"
  /\ runs = 0
  /\ planted = [m \in MarkerPaths |-> [landmines |-> <<>>]]
  /\ start = [dirs |-> dirs, markers |-> markers, planted |-> planted]
  /\ last = NoLast
  /\ cc_pc = "idle"
  /\ chromium_revision = <<>>
  /\ os_platform = "unix"
  /\ is_git_hash = FALSE
  /\ all_deps = EmptyDict
  /\ todo = {}
  /\ components = EmptyDict

\* ------------------------------------------------------------------------
\* One invocation of the script
\* ------------------------------------------------------------------------
\* main() up to the call of clobber_if_necessary, and its first two lines.
Main(b, cod, outputs) ==
  /\ pc = "idle"
  /\ runs < MaxRuns
  /\ runs' = runs + 1
  /\ builder' = b
  /\ chromium_out_dir' = cod
  /\ start' = [dirs |-> dirs, markers |-> markers, planted |-> planted]
  /\ old_landmines' = <<>>
  /\ errno' = "none"
  /\ decided' = "none"
  /\ clobbered' = FALSE
  /\ IF b \in SkipBuilders
       THEN /\ result' = "0"
            /\ pc' = "done"
            /\ new_landmines' = <<>>
            /\ out_dir' = SRC_DIR
            /\ landmines_path' = SRC_DIR
       ELSE LET bd == get_build_dir(b, cod) IN
            /\ new_landmines' = landmines(outputs)
            /\ IF bd.raised
                 THEN /\ result' = "NotImplementedError"
                      /\ pc' = "done"
                      /\ out_dir' = SRC_DIR
                      /\ landmines_path' = SRC_DIR
                 ELSE /\ result' = "none"
                      /\ pc' = "makedirs"
                      /\ out_dir' = bd.ret
                      /\ landmines_path' = LandminesPath(bd.ret)
  /\ UNCHANGED dvars
  /\ UNCHANGED <<dirs, markers, planted, last>>

\* Whether clobber_if_necessary goes on after os.makedirs raised OSError e.
makedirs_error_passes(e) == TRUE

\* try: os.makedirs(out_dir) except OSError as e: if e.errno == errno.EEXIST: pass
MakeDirs ==
  /\ pc = "makedirs"
  /\ \E e \in {"none", "EEXIST", "EACCES"} :
       /\ e = "EEXIST" <=> DirExists(dirs, out_dir)
       /\ errno' = e
       /\ \/ /\ e = "none"
             /\ dirs' = makedirs(dirs, out_dir)
          \/ /\ e = "EEXIST"
             /\ dirs' = dirs
          \/ /\ e = "EACCES"
             /\ \E k \in 0..(Len(out_dir)-1) : dirs' = makedirs_failed(dirs, out_dir, k)
       /\ IF e = "none" \/ makedirs_error_passes(e)
            THEN pc' = "exists" /\ result' = result
            ELSE pc' = "done" /\ result' = "OSError"
  /\ UNCHANGED dvars
  /\ UNCHANGED <<markers, builder, chromium_out_dir, new_landmines, out_dir,
                 landmines_path, old_landmines, decided, clobbered, runs, start,
                 planted, last>>

\* Mutant of CheckMarker: the new landmines are saved as soon as the change is seen.
CheckMarker_saves_first ==
  /\ pc = "exists"
  /\ IF markers[landmines_path].exists
       THEN LET old == readlines(markers[landmines_path].content) IN
            /\ old_landmines' = old
            /\ IF landmines_changed(old, new_landmines)
                 THEN /\ decided' = "clobber"
                      /\ pc' = "rmtree"
                      /\ markers' = [markers EXCEPT ![landmines_path] =
                            [exists |-> TRUE, content |-> writelines(new_landmines)]]
                 ELSE decided' = "keep" /\ pc' = "write" /\ markers' = markers
       ELSE /\ old_landmines' = old_landmines
            /\ decided' = "keep"
            /\ pc' = "write"
            /\ markers' = markers
  /\ UNCHANGED dvars
  /\ UNCHANGED <<dirs, builder, chromium_out_dir, new_landmines, out_dir,
                 landmines_path, errno, clobbered, result, runs, start, planted, last>>

\* if os.path.exists(landmines_path): read it; if old_landmines != new_landmines: ...
CheckMarker ==
  /\ pc = "exists"
  /\ IF markers[landmines_path].exists
       THEN LET old == readlines(markers[landmines_path].content) IN
            /\ old_landmines' = old
            /\ IF landmines_changed(old, new_landmines)
                 THEN decided' = "clobber" /\ pc' = "rmtree"
                 ELSE decided' = "keep" /\ pc' = "write"
       ELSE /\ old_landmines' = old_landmines
            /\ decided' = "keep"
            /\ pc' = "write"
  /\ UNCHANGED dvars
  /\ UNCHANGED <<dirs, markers, builder, chromium_out_dir, new_landmines, out_dir,
                 landmines_path, errno, clobbered, result, runs, start, planted, last>>

\* Mutant of Clobber: a failure of shutil.rmtree is swallowed, as that of os.makedirs is.
Clobber_swallows_error ==
  /\ pc = "rmtree"
  /\ \/ /\ DirExists(dirs, out_dir)
        /\ dirs' = rmtree(dirs, out_dir)
        /\ markers' = rmtree_files(markers, out_dir)
        /\ clobbered' = TRUE
     \/ /\ dirs' \in rmtree_failed(dirs, out_dir)
        /\ markers' = markers
        /\ clobbered' = clobbered
  /\ pc' = "write"
  /\ result' = result
  /\ UNCHANGED dvars
  /\ UNCHANGED <<builder, chromium_out_dir, new_landmines, out_dir, landmines_path,
                 old_landmines, errno, decided, runs, start, planted, last>>

\* shutil.rmtree(out_dir)
Clobber ==
  /\ pc = "rmtree"
  /\ \/ /\ DirExists(dirs, out_dir)
        /\ dirs' = rmtree(dirs, out_dir)
        /\ markers' = rmtree_files(markers, out_dir)
        /\ clobbered' = TRUE
        /\ pc' = "write"
        /\ result' = result
     \/ /\ dirs' \in rmtree_failed(dirs, out_dir)
        /\ markers' = markers
        /\ clobbered' = clobbered
        /\ pc' = "done"
        /\ result' = "OSError"
  /\ UNCHANGED dvars
  /\ UNCHANGED <<builder, chromium_out_dir, new_landmines, out_dir, landmines_path,
                 old_landmines, errno, decided, runs, start, planted, last>>

\* with open(landmines_path, 'w') as f: f.writelines(new_landmines)
SaveLandmines ==
  /\ pc = "write"
  /\ IF DirExists(dirs, dirname(landmines_path))
       THEN /\ markers' = [markers EXCEPT ![landmines_path] =
                             [exists |-> TRUE, content |-> writelines(new_landmines)]]
            /\ planted' = [planted EXCEPT ![landmines_path] =
                             [landmines |-> new_landmines]]
            /\ result' = "0"
       ELSE /\ markers' = markers
            /\ planted' = planted
            /\ result' = "IOError"
  /\ pc' = "done"
  /\ UNCHANGED dvars
  /\ UNCHANGED <<dirs, builder, chromium_out_dir, new_landmines, out_dir,
                 landmines_path, old_landmines, errno, decided, clobbered, runs,
                 start, last>>

\* sys.exit(main()): the process ends.
Exit ==
  /\ pc = "done"
  /\ pc' = "idle"
  /\ last' = [result |-> result, decided |-> decided, out_dir |-> out_dir,
              landmines_path |-> landmines_path, landmines |-> new_landmines]
  /\ builder' = "none"
  /\ chromium_out_dir' = Unset
  /\ new_landmines' = <<>>
  /\ out_dir' = SRC_DIR
  /\ landmines_path' = SRC_DIR
  /\ old_landmines' = <<>>
  /\ errno' = "none"
  /\ decided' = "none"
  /\ clobbered' = FALSE
  /\ result' = "none"
  /\ UNCHANGED dvars
  /\ UNCHANGED <<dirs, markers, runs, start, planted>>

\* The build that the script is the first hook of: it fills the output
\* directory with products built under the landmines just saved.
Build ==
  /\ pc = "idle"
  /\ last.result = "0"
  /\ last.out_dir # SRC_DIR
  /\ dirs' = [makedirs(dirs, last.out_dir) EXCEPT ![last.out_dir] =
                [exists |-> TRUE, content |-> <<last.landmines>>]]
  /\ dirs' # dirs
  /\ UNCHANGED dvars
  /\ UNCHANGED <<markers, pc, locals, runs, start, planted, last>>

Next ==
  \/ \E b \in Builders, cod \in OutDirOverrides, outputs \in ScriptRuns :
       Main(b, cod, outputs)
  \/ MakeDirs
  \/ CheckMarker
  \/ Clobber
  \/ SaveLandmines
  \/ Exit
  \/ Build

Spec == Init /\ [][Next]_vars


\* ------------------------------------------------------------------------
\* Properties of the landmine guard
\* ------------------------------------------------------------------------
Supported == pc # "idle" /\ builder \in SupportedBuilders
Succeeded == pc = "done" /\ result = "0"
MarkerHolds(lines) ==
  /\ markers[landmines_path].exists
  /\ markers[landmines_path].content = writelines(lines)
  /\ readlines(markers[landmines_path].content) = lines
Lines(l) == {l[i] : i \in 1..Len(l)}

\* C1 as claimed: after a successful invocation for a supported build tool the
\* Marker holds exactly newLandmines and the Build Output Directory exists,
\* also when the invocation just clobbered it (stated for the invocations in
\* which os.makedirs did not fail, so that it is the clobber that decides it).
C1_MarkerSavedAndDirExists ==
  (Supported /\ Succeeded /\ errno # "EACCES") =>
     (MarkerHolds(new_landmines) /\ DirExists(dirs, out_dir))

\* C1 amended: after a successful invocation for a supported build tool the
\* Marker holds exactly newLandmines, and the Build Output Directory exists
\* exactly when the invocation did not clobber it and its creation did not fail.
C1_MarkerSavedAndDirExistsUnlessClobbered ==
  (Supported /\ Succeeded) =>
     /\ MarkerHolds(new_landmines)
     /\ DirExists(dirs, out_dir) <=> (~clobbered /\ errno # "EACCES")

C1_Witness ==
  /\ Supported /\ Succeeded
  /\ clobbered
  /\ ~DirExists(dirs, out_dir)
  /\ new_landmines # <<>>

\* C2: an invocation clobbers if and only if the Marker existed when it started
\* and the sequence saved in it differs from newLandmines as a sequence.
C2_ClobberIffMarkerDiffers ==
  /\ decided # "none" =>
       (decided = "clobber" <=>
          /\ start.markers[landmines_path].exists
          /\ start.planted[landmines_path].landmines # new_landmines)
  /\ clobbered => decided = "clobber"
  /\ (pc = "rmtree") => decided = "clobber"

C2_Witness ==
  /\ clobbered
  /\ Lines(old_landmines) = Lines(new_landmines)
  /\ Len(old_landmines) = Len(new_landmines)
  /\ old_landmines # new_landmines

\* C3: an invocation that follows a successful one with the same newLandmines
\* (and the same Marker path) does not clobber, it reads back the sequence the
\* first one saved, and the Marker holds newLandmines after each of them.
C3_SecondCallIsNoOp ==
  /\ (/\ decided # "none"
      /\ last.result = "0"
      /\ last.landmines_path = landmines_path
      /\ last.landmines = new_landmines) =>
        (decided = "keep" /\ old_landmines = new_landmines /\ ~clobbered)
  /\ (Supported /\ Succeeded) => readlines(markers[landmines_path].content) = new_landmines

C3_Witness ==
  /\ Succeeded
  /\ decided = "keep"
  /\ last.result = "0"
  /\ last.landmines_path = landmines_path
  /\ last.landmines = new_landmines
  /\ new_landmines # <<>>
  /\ start.markers[landmines_path].content = markers[landmines_path].content

\* C4: in an invocation that found the landmines changed, the Marker holds the
\* new sequence only once the Build Output Directory has been deleted.
C4_DeletedBeforeMarkerRewritten ==
  (/\ decided = "clobber"
   /\ \/ markers[landmines_path] # start.markers[landmines_path]
      \/ readlines(markers[landmines_path].content) = new_landmines) =>
     (clobbered /\ ~DirExists(dirs, out_dir))

C4_Witness ==
  /\ Succeeded
  /\ decided = "clobber"
  /\ start.dirs[out_dir].content # <<>>
  /\ readlines(markers[landmines_path].content) = new_landmines
  /\ ~DirExists(dirs, out_dir)

\* C5: when the deletion fails (or the invocation has not yet reached the
\* rewrite) the Marker still holds what it held when the invocation started, a
\* failed deletion fails the invocation, and the next invocation with the same
\* newLandmines finds the change again and clobbers.
C5_FailedDeleteLeavesMarkerStale ==
  /\ (decided = "clobber" /\ ~Succeeded) =>
        /\ markers = start.markers
        /\ readlines(markers[landmines_path].content) # new_landmines
  /\ (pc = "done" /\ decided = "clobber" /\ ~clobbered) => result = "OSError"
  /\ (/\ decided # "none"
      /\ last.decided = "clobber"
      /\ last.result # "0"
      /\ last.landmines_path = landmines_path
      /\ last.landmines = new_landmines) => decided = "clobber"

C5_Witness ==
  /\ last.decided = "clobber"
  /\ last.result = "OSError"
  /\ last.landmines_path = landmines_path
  /\ last.landmines = new_landmines
  /\ clobbered
  /\ Succeeded

\* C6: an invocation for a build tool outside the supported set mutates nothing:
\* the skip identifiers exit with 0 at once, any other raises NotImplementedError
\* before a directory is created or the Marker is read or written.
C6_UnsupportedToolTouchesNothing ==
  (pc # "idle" /\ builder \notin SupportedBuilders) =>
     /\ pc = "done"
     /\ dirs = start.dirs
     /\ markers = start.markers
     /\ decided = "none"
     /\ result = (IF builder \in SkipBuilders THEN "0" ELSE "NotImplementedError")

C6_Witness ==
  /\ pc = "done"
  /\ builder = "scons"
  /\ result = "NotImplementedError"
  /\ markers[<<".landmines">>].exists
  /\ \E d \in AllDirs : dirs[d].content # <<>>

EmptyRun ==
  /\ Supported
  /\ new_landmines = <<>>
  /\ \/ ~start.markers[landmines_path].exists
     \/ start.markers[landmines_path].content = <<>>

\* C7 as claimed: with empty newLandmines and a Marker that is absent or empty,
\* the invocation leaves the file system as it found it.
C7_EmptyRunHasNoSideEffects ==
  (EmptyRun /\ pc = "done") => (dirs = start.dirs /\ markers = start.markers)

\* C7 amended: with empty newLandmines and a Marker that is absent or empty, the
\* invocation deletes nothing and changes nothing that existed, but it creates
\* the Build Output Directory when it is absent and saves an empty Marker.
C7_EmptyRunDeletesNothing ==
  EmptyRun =>
     /\ decided # "clobber"
     /\ ~clobbered
     /\ \A d \in AllDirs : start.dirs[d].exists => dirs[d] = start.dirs[d]
     /\ \A m \in MarkerPaths : markers[m].content = start.markers[m].content
     /\ \A m \in MarkerPaths : start.markers[m].exists => markers[m].exists
     /\ Succeeded =>
          /\ markers[landmines_path] = [exists |-> TRUE, content |-> <<>>]
          /\ errno # "EACCES" => DirExists(dirs, out_dir)

C7_Witness ==
  /\ EmptyRun
  /\ Succeeded
  /\ ~start.markers[landmines_path].exists
  /\ markers[landmines_path].exists
  /\ ~start.dirs[out_dir].exists
  /\ dirs[out_dir].exists

\* C8 as claimed: when os.makedirs fails with anything but "already exists" the
\* invocation aborts with the error before the Marker is read, compared or
\* rewritten and before anything is deleted.
C8_MakedirsFailureIsFatal ==
  errno = "EACCES" =>
     /\ pc = "done"
     /\ result = "OSError"
     /\ decided = "none"
     /\ ~clobbered
     /\ markers = start.markers

\* C9: without an override every supported build tool uses the Marker
\* <root>/.landmines; so an invocation whose newLandmines equal the sequence
\* saved there, by whichever tool, does not clobber its own output directory,
\* whatever that directory was built under; and an invocation never removes a
\* directory other than its own output directory.
C9_OneMarkerForAllTools ==
  /\ (Supported /\ chromium_out_dir = Unset) => landmines_path = <<".landmines">>
  /\ (/\ Supported
      /\ chromium_out_dir = Unset
      /\ decided # "none"
      /\ start.markers[<<".landmines">>].exists
      /\ start.planted[<<".landmines">>].landmines = new_landmines) =>
        /\ decided = "keep"
        /\ ~clobbered
        /\ start.dirs[out_dir].exists => dirs[out_dir] = start.dirs[out_dir]
  /\ Supported =>
       \A d \in AllDirs :
          (start.dirs[d].exists /\ ~IsPrefix(out_dir, d)) => dirs[d] = start.dirs[d]

C9_Witness ==
  /\ Supported /\ Succeeded
  /\ chromium_out_dir = Unset
  /\ decided = "keep"
  /\ last.result = "0"
  /\ last.out_dir # out_dir
  /\ last.landmines = new_landmines
  /\ start.planted[<<".landmines">>].landmines = new_landmines
  /\ dirs[out_dir].content # <<>>
  /\ dirs[out_dir].content # <<new_landmines>>

\* ------------------------------------------------------------------------
\* GetChromiumComponents
\* ------------------------------------------------------------------------
\* Lines 89-119: the DEPS file of the revision is fetched and parsed.
GetChromiumComponents(revision, platform, deps_file) ==
  /\ cc_pc = "idle"
  /\ chromium_revision' = revision
  /\ LET plat == IF lower(platform) = "linux" THEN "unix" ELSE platform
         git == IsGitHash(revision)
         url == IF git
                  THEN <<CONFIG.git_base_url, CONFIG.git_deps_path, revision>>
                  ELSE <<CONFIG.svn_base_url, CONFIG.svn_deps_path, revision>>
         downloaded == deps_file_downloader(url, deps_file)
         deps_content == IF git THEN b64decode(downloaded) ELSE downloaded
         parsed == ParseDEPS(deps_content)
         merged == update(update(EmptyDict, parsed[1]), get(parsed[2], plat))
     IN /\ os_platform' = plat
        /\ is_git_hash' = git
        /\ all_deps' = merged
        /\ todo' = DOMAIN merged
  /\ components' = EmptyDict
  /\ cc_pc' = "for"
  /\ UNCHANGED lvars

\* Lines 121-143: one iteration of the loop over all_deps, in dictionary order.
ForComponent ==
  /\ cc_pc = "for"
  /\ \E component_path \in todo :
       LET name == GetComponentName(component_path, CONFIG.host_directories)
           parts == split_at(all_deps[component_path])
           revision == parts[2]
           repository == IF Head(parts[1]) = "/"
                           THEN CONFIG.svn_src_chromium_url \o parts[1]
                           ELSE parts[1]
           key == [component_path EXCEPT !.slash = TRUE]
           component == [path |-> key,
                         name |-> name,
                         repository |-> repository,
                         repository_type |-> IF IsGitHash(revision) THEN "git" ELSE "svn",
                         revision |-> revision]
       IN /\ is_git_hash' = IsGitHash(revision)
          /\ components' = update(components, [k \in {key} |-> component])
          /\ todo' = todo \ {component_path}
  /\ UNCHANGED <<cc_pc, chromium_revision, os_platform, all_deps>>
  /\ UNCHANGED lvars

\* Lines 145-161: chromium itself is added, and the components are returned.
AddChromium ==
  /\ cc_pc = "for"
  /\ todo = {}
  /\ LET component == [path |-> ChromiumKey,
                       name |-> <<"chromium">>,
                       repository |-> IF is_git_hash THEN CONFIG.git_base_url
                                                     ELSE CONFIG.svn_base_url,
                       repository_type |-> IF is_git_hash THEN "git" ELSE "svn",
                       revision |-> chromium_revision]
     IN components' = update(components, [k \in {ChromiumKey} |-> component])
  /\ cc_pc' = "return"
  /\ UNCHANGED <<chromium_revision, os_platform, is_git_hash, all_deps, todo>>
  /\ UNCHANGED lvars

NextDeps ==
  \/ \E revision \in Revisions, platform \in Platforms, deps_file \in DepsFiles :
       GetChromiumComponents(revision, platform, deps_file)
  \/ ForComponent
  \/ AddChromium

SpecDeps == Init /\ [][NextDeps]_vars

\* C10: the component returned under 'src/' is a git component of the git base
\* URL exactly when chromium_revision is a git hash, and an svn component of the
\* svn base URL otherwise, whatever the DEPS file lists.
C10_ChromiumTypeFollowsItsRevision ==
  cc_pc = "return" =>
     /\ components[ChromiumKey].revision = chromium_revision
     /\ IF IsGitHash(chromium_revision)
          THEN /\ components[ChromiumKey].repository_type = "git"
               /\ components[ChromiumKey].repository = CONFIG.git_base_url
          ELSE /\ components[ChromiumKey].repository_type = "svn"
               /\ components[ChromiumKey].repository = CONFIG.svn_base_url

====
